---- MODULE Spec2Model ----
(***************************************************************************)
(* Change Impact Simulator (src/src/change_impact_simulator_server.py).    *)
(*                                                                         *)
(* The server object holds the Rule Store (knowledge_base,                 *)
(* change_patterns, risk_definitions, workflows), loaded once, and a       *)
(* MetricsCollector.  Every tool call runs one synchronous method of it.   *)
(*                                                                         *)
(* Conventions of the model                                                *)
(*   - a Python str that is searched or lower-cased is a sequence of       *)
(*     one-character strings; names that are only compared are strings;    *)
(*   - a Python dict is a function whose DOMAIN is its key set, so that a  *)
(*     missing key is a key outside DOMAIN; d.get(k, default) is Get;      *)
(*     d.get(k) with no default yields None, modelled by Opt: << >> is     *)
(*     None and <<v>> is the value v;                                      *)
(*   - a dict whose insertion order is observed (change_patterns,          *)
(*     pattern_usage) is a sequence of [key, value] entries;               *)
(*   - a raised exception is the value [exception |-> <type name>].        *)
(***************************************************************************)
EXTENDS Integers, Sequences, FiniteSets, TLC

VARIABLES
    knowledge_base,     \* simulator.knowledge_base
    change_patterns,    \* simulator.change_patterns (ordered mapping)
    risk_definitions,   \* simulator.risk_definitions
    workflows,          \* simulator.workflows
    analyses,           \* simulator.metrics.analyses
    risk_distribution,  \* simulator.metrics.risk_distribution (defaultdict)
    pattern_usage,      \* simulator.metrics.pattern_usage (defaultdict, ordered)
    start_time,         \* simulator.metrics.start_time
    now,                \* the wall clock, in ticks
    inflight,           \* tool calls received by the event loop, not yet run
    completed,          \* the outcomes of the analyses returned so far
    answers,            \* the first answer to each read-only call, as kept by
                        \* the specification that compares repeated calls
    issued,             \* the workflow_id of each approval chain returned so
                        \* far, as kept by the specification that compares them
    call,               \* the tool call that ran last: [name, arguments]
    ret                 \* what that call handed to json.dumps, under the
                        \* tool's name, or the exception it raised

vars == <<knowledge_base, change_patterns, risk_definitions, workflows,
          analyses, risk_distribution, pattern_usage, start_time,
          now, inflight, completed, answers, issued, call, ret>>

ruleStore == <<knowledge_base, change_patterns, risk_definitions, workflows>>

metrics == <<analyses, risk_distribution, pattern_usage, start_time>>

----------------------------------------------------------------------------
(* Bounds of the model *)

\* longest change description, query or keyword text, in characters
MaxLen == 3

\* most analyses recorded in one run
MaxAnalyses == 2

\* last reading of the wall clock, in ticks
MaxClock == 2

\* clock ticks in one second
TicksPerSecond == 2

\* largest replica count of a deployment configuration
MaxReplicas == 3

\* most tool calls in flight at once
MaxInflight == 2

----------------------------------------------------------------------------
(* Python values *)

None == << >>

Some(v) == <<v>>

\* d.get(k, default)
Get(d, k, default) == IF k \in DOMAIN d THEN d[k] ELSE default

\* d.get(k)
GetOpt(d, k) == IF k \in DOMAIN d THEN Some(d[k]) ELSE None

EmptyDict == [k \in {} |-> 0]

\* d[k] = v on a dict
DictSet(d, k, v) == [x \in DOMAIN d \cup {k} |-> IF x = k THEN v ELSE d[x]]

\* d[k] on a defaultdict(int): the value read, a missing key reading as 0
DefaultGet(d, k) == IF k \in DOMAIN d THEN d[k] ELSE 0

\* the defaultdict after d[k] was read: a missing key is inserted with 0
DefaultTouch(d, k) == IF k \in DOMAIN d THEN d ELSE DictSet(d, k, 0)

\* d[k] = 1: an increment that forgets the count it found
DefaultOne(d, k) == DictSet(d, k, 1)

\* d[k] += 1 on a defaultdict(int)
DefaultInc(d, k) == DictSet(d, k, DefaultGet(d, k) + 1)

\* an insertion-ordered dict: the position of key k, 0 when absent
OrdIndex(od, k) ==
    IF \E i \in 1..Len(od) : od[i].key = k
    THEN CHOOSE i \in 1..Len(od) : od[i].key = k
    ELSE 0

OrdKeys(od) == {od[i].key : i \in 1..Len(od)}

OrdGet(od, k, default) ==
    IF OrdIndex(od, k) = 0 THEN default ELSE od[OrdIndex(od, k)].value

\* od[k] += 1 on an ordered defaultdict(int): a new key goes last
OrdInc(od, k) ==
    IF OrdIndex(od, k) = 0
    THEN Append(od, [key |-> k, value |-> 1])
    ELSE [od EXCEPT ![OrdIndex(od, k)].value = @ + 1]

----------------------------------------------------------------------------
(* str.lower() and the substring test "k in text" *)

UpperCase == <<"A", "B", "C", "D", "E", "F", "G", "H", "I", "J", "K", "L", "M",
               "N", "O", "P", "Q", "R", "S", "T", "U", "V", "W", "X", "Y", "Z">>

LowerCase == <<"a", "b", "c", "d", "e", "f", "g", "h", "i", "j", "k", "l", "m",
               "n", "o", "p", "q", "r", "s", "t", "u", "v", "w", "x", "y", "z">>

lower_char(c) ==
    IF \E i \in 1..Len(UpperCase) : UpperCase[i] = c
    THEN LowerCase[CHOOSE i \in 1..Len(UpperCase) : UpperCase[i] = c]
    ELSE c

lower(s) == [i \in 1..Len(s) |-> lower_char(s[i])]

\* k in text
Contains(text, k) ==
    \E i \in 0..(Len(text) - Len(k)) :
        \A j \in 1..Len(k) : text[i + j] = k[j]

----------------------------------------------------------------------------
(* datetime *)

\* datetime.now(UTC): an aware datetime
datetime_now_utc(t) == [t |-> t, tzinfo |-> Some("UTC")]

\* datetime.utcnow(): a naive datetime
datetime_utcnow(t) == [t |-> t, tzinfo |-> None]

\* a - b on datetimes: a naive and an aware datetime cannot be subtracted
datetime_sub(a, b) ==
    IF (a.tzinfo = None) # (b.tzinfo = None)
    THEN [exception |-> "TypeError"]
    ELSE [ticks |-> a.t - b.t]

\* timedelta.total_seconds(), as the fraction <<ticks, ticks per second>>
total_seconds(td) == <<td.ticks, TicksPerSecond>>

\* datetime.isoformat(): the reading, with the UTC offset of an aware datetime
isoformat(d) == [t |-> d.t, offset |-> IF d.tzinfo = None THEN "" ELSE "+00:00"]

\* datetime.strftime('%Y%m%d%H%M%S'): the reading cut to whole seconds
strftime_seconds(d) == d.t \div TicksPerSecond

IsException(v) == DOMAIN v = {"exception"}

----------------------------------------------------------------------------
(* MetricsCollector *)

\* if pattern: (None and the empty string are false)
Truthy(opt) == opt # None /\ opt[1] # ""

\* the entry record_analysis appends to self.analyses
analysis_entry(analysis) ==
    [timestamp       |-> GetOpt(analysis, "timestamp"),
     risk_level      |-> GetOpt(analysis, "risk_level"),
     pattern         |-> GetOpt(analysis, "matched_pattern"),
     requires_review |-> GetOpt(analysis, "requires_manual_review")]

\* a count that skips a record without a risk level
record_risk_if_present(rd, analysis) ==
    IF "risk_level" \in DOMAIN analysis
    THEN DefaultInc(rd, analysis["risk_level"])
    ELSE rd

\* self.risk_distribution after record_analysis(analysis)
record_risk(rd, analysis) ==
    DefaultInc(rd, Get(analysis, "risk_level", "UNKNOWN"))

\* self.pattern_usage after record_analysis(analysis)
record_pattern(pu, analysis) ==
    IF Truthy(GetOpt(analysis, "matched_pattern"))
    THEN OrdInc(pu, analysis["matched_pattern"])
    ELSE pu

\* MetricsCollector.record_analysis: the three updates of one call
record_analysis(analysis) ==
    /\ analyses' = Append(analyses, analysis_entry(analysis))
    /\ risk_distribution' = record_risk(risk_distribution, analysis)
    /\ pattern_usage' = record_pattern(pattern_usage, analysis)
    /\ UNCHANGED start_time

\* self.analyses[-10:]
RecentLimit == 10

TopLimit == 5

LastN(s, n) == IF Len(s) <= n THEN s ELSE SubSeq(s, Len(s) - n + 1, Len(s))

FirstN(s, n) == IF Len(s) <= n THEN s ELSE SubSeq(s, 1, n)

\* sorted(items, key=count, reverse=True): stable, so equal counts keep
\* their insertion order; position i holds the entry with exactly i - 1
\* entries before it in that order
SortedByCountDesc(od) ==
    LET before(i, j) == \/ od[i].value > od[j].value
                        \/ od[i].value = od[j].value /\ i < j
        rank(j) == Cardinality({i \in 1..Len(od) : before(i, j)})
    IN  [p \in 1..Len(od) |-> od[CHOOSE j \in 1..Len(od) : rank(j) = p - 1]]

\* round(high / max(total, 1) * 100, 2), in hundredths of a percent,
\* a tie going to the even neighbour
high_risk_percentage(high, total) ==
    LET d == IF total > 1 THEN total ELSE 1
        q == (high * 10000) \div d
        r == (high * 10000) % d
    IN  IF 2 * r > d \/ (2 * r = d /\ q % 2 = 1) THEN q + 1 ELSE q

\* self.risk_distribution after get_statistics read ["HIGH"] and ["CRITICAL"]
statistics_touch(rd) == DefaultTouch(DefaultTouch(rd, "HIGH"), "CRITICAL")

\* what get_statistics returns or raises
statistics_result(an, rd, pu, start, t) ==
    LET total  == Len(an)
        high   == DefaultGet(rd, "HIGH") + DefaultGet(rd, "CRITICAL")
        uptime == datetime_sub(datetime_utcnow(t), start)
    IN  IF IsException(uptime)
        THEN uptime
        ELSE [summary |->
                 [total_analyses       |-> total,
                  uptime_seconds       |-> total_seconds(uptime),
                  high_risk_percentage |-> high_risk_percentage(high, total)],
              risk_distribution |-> statistics_touch(rd),
              top_patterns      |-> FirstN(SortedByCountDesc(pu), TopLimit),
              recent_analyses   |-> LastN(an, RecentLimit)]

----------------------------------------------------------------------------
(* Classifier and Risk Analyzer: ChangeImpactSimulatorServer.analyze_change *)

\* any(k.lower() in text for k in pattern.get("keywords", []))
pattern_matches(pattern, text) ==
    LET keywords == Get(pattern, "keywords", << >>)
    IN  \E n \in 1..Len(keywords) : Contains(text, lower(keywords[n]))

\* a loop without its break: the last matching pattern overwrites the first
last_match(patterns, change_description) ==
    LET text == lower(change_description)
        hits == {i \in 1..Len(patterns) : pattern_matches(patterns[i].value, text)}
    IN  IF hits = {} THEN 0 ELSE CHOOSE i \in hits : \A j \in hits : i >= j

\* the for loop with its break: the position of the first pattern, in the
\* mapping's order, that matches the lower-cased description; 0 when the
\* loop ends without a match
first_match(patterns, change_description) ==
    LET text == lower(change_description)
        hits == {i \in 1..Len(patterns) : pattern_matches(patterns[i].value, text)}
    IN  IF hits = {} THEN 0 ELSE CHOOSE i \in hits : \A j \in hits : i <= j

\* matched_pattern = pattern.copy(); matched_pattern["name"] = name
matched_pattern_of(patterns, i) == DictSet(patterns[i].value, "name", patterns[i].key)

unknown_analysis ==
    [risk_level     |-> "UNKNOWN",
     message        |-> "Unrecognized change pattern",
     recommendation |-> "Manual review required"]

\* the dict analyze_change returns
analyze_result(patterns, definitions, change_description, t) ==
    LET i == first_match(patterns, change_description)
    IN  IF i = 0
        THEN unknown_analysis
        ELSE LET matched_pattern == matched_pattern_of(patterns, i)
                 risk_level == Get(matched_pattern, "risk_level", "MEDIUM")
             IN  [timestamp              |-> isoformat(datetime_utcnow(t)),
                  change_description     |-> change_description,
                  matched_pattern        |-> matched_pattern["name"],
                  risk_level             |-> risk_level,
                  impact                 |-> Get(matched_pattern, "impacts", << >>),
                  safe_conditions        |-> Get(matched_pattern, "safe_conditions", << >>),
                  safeguards             |-> Get(matched_pattern, "safeguards", << >>),
                  risk_definition        |-> Get(definitions, risk_level, EmptyDict),
                  requires_manual_review |-> risk_level \in {"HIGH", "CRITICAL"}]

\* whether analyze_change reaches self.metrics.record_analysis(analysis):
\* the unmatched branch returns before it
analysis_recorded(patterns, change_description) ==
    first_match(patterns, change_description) # 0

\* one run of analyze_change
analyze_change(change_description) ==
    LET analysis == analyze_result(change_patterns, risk_definitions,
                                   change_description, now)
    IN  /\ IF analysis_recorded(change_patterns, change_description)
           THEN record_analysis(analysis)
           ELSE UNCHANGED metrics
        /\ ret' = [analyze_change |-> analysis]

\* one run of MetricsCollector.get_statistics
get_statistics ==
    /\ risk_distribution' = statistics_touch(risk_distribution)
    /\ LET statistics == statistics_result(analyses, risk_distribution,
                                            pattern_usage, start_time, now)
       IN  ret' = IF IsException(statistics)
                  THEN statistics
                  ELSE [get_analysis_statistics |-> statistics]
    /\ UNCHANGED <<analyses, pattern_usage, start_time>>

----------------------------------------------------------------------------
(* Review/Approval Planner *)

\* a priority that follows the risk level: HIGH for HIGH as well
review_priority_by_level(risk) ==
    IF risk \in {"HIGH", "CRITICAL"} THEN "HIGH" ELSE "MEDIUM"

\* "HIGH" if risk == "CRITICAL" else "MEDIUM"
review_priority(risk) == IF risk = "CRITICAL" THEN "HIGH" ELSE "MEDIUM"

\* ChangeImpactSimulatorServer.create_review_task
create_review_task(analysis, t) ==
    LET risk == Get(analysis, "risk_level", "UNKNOWN")
    IN  IF risk \notin {"HIGH", "CRITICAL"}
        THEN [task_created |-> FALSE,
              reason       |-> "Risk level does not require manual review"]
        ELSE [task_created       |-> TRUE,
              task_type          |-> "MANUAL_REVIEW_REQUIRED",
              priority           |-> review_priority(risk),
              timestamp          |-> isoformat(datetime_utcnow(t)),
              change_description |-> GetOpt(analysis, "change_description"),
              risk_level         |-> risk,
              note               |-> "Advisory only - no execution, no automation"]

\* x in list
InList(x, list) == \E i \in 1..Len(list) : list[i] = x

\* self.workflows.get("approval_workflow", {}).get("stages", [])
configured_stages(wf) == Get(Get(wf, "approval_workflow", EmptyDict), "stages", << >>)

\* if risk_level in stage.get("required_for", [])
stage_required(stage, risk_level) ==
    InList(risk_level, Get(stage, "required_for", << >>))

\* the dict get_required_approvals appends for a required stage
approval_of(stage) ==
    [stage        |-> GetOpt(stage, "name"),
     description  |-> Get(stage, "description", ""),
     auto_approve |-> Get(stage, "auto_approve", FALSE),
     approvers    |-> Get(stage, "approvers", << >>)]

\* the loop of get_required_approvals over the first n configured stages
RECURSIVE required_upto(_, _, _)
required_upto(stages, risk_level, n) ==
    IF n = 0
    THEN << >>
    ELSE LET rest == required_upto(stages, risk_level, n - 1)
         IN  IF stage_required(stages[n], risk_level)
             THEN Append(rest, approval_of(stages[n]))
             ELSE rest

\* a search that stops at the first required stage, as the classifier does
first_required_approval(wf, risk_level) ==
    FirstN(required_upto(configured_stages(wf), risk_level,
                         Len(configured_stages(wf))), 1)

\* ApprovalWorkflowEngine.get_required_approvals
get_required_approvals(wf, risk_level) ==
    required_upto(configured_stages(wf), risk_level, Len(configured_stages(wf)))

\* an estimate whose second band ends before 24 hours
estimate_approval_time_strict(stages) ==
    LET hours == Len(stages) * 2
    IN  IF hours <= 4 THEN "Same day"
        ELSE IF hours < 24 THEN "Within 24 hours"
        ELSE ToString(hours \div 24) \o " business days"

\* ApprovalWorkflowEngine._estimate_approval_time
estimate_approval_time(stages) ==
    LET hours == Len(stages) * 2
    IN  IF hours <= 4 THEN "Same day"
        ELSE IF hours <= 24 THEN "Within 24 hours"
        ELSE ToString(hours \div 24) \o " business days"

\* ApprovalWorkflowEngine.create_approval_chain
create_approval_chain(wf, analysis, t) ==
    LET risk_level == Get(analysis, "risk_level", "UNKNOWN")
        required_approvals == get_required_approvals(wf, risk_level)
    IN  IF required_approvals = << >>
        THEN [requires_approval |-> FALSE,
              reason |-> "Risk level does not require approval workflow"]
        ELSE [requires_approval       |-> TRUE,
              risk_level              |-> risk_level,
              change_description      |-> GetOpt(analysis, "change_description"),
              approval_stages         |-> required_approvals,
              estimated_approval_time |-> estimate_approval_time(required_approvals),
              workflow_id             |-> <<"WF-", strftime_seconds(datetime_utcnow(t))>>,
              status                  |-> "PENDING_APPROVAL",
              note |-> "This is an advisory workflow. No automatic execution will occur."]

----------------------------------------------------------------------------
(* Deployment Config Validator: CICDValidator *)

\* not d, for a dict
IsEmpty(d) == DOMAIN d = {}

\* if replicas < 2:
replicas_issue(replicas) == replicas < 2

\* elif replicas < 3:
replicas_warning(replicas) == ~replicas_issue(replicas) /\ replicas < 3

\* a production check that forgets the issues found so far
production_always_blocked(environment, issues) == environment = "production"

\* if environment == "production" and len(issues) > 0:
production_blocked(environment, issues) ==
    environment = "production" /\ Len(issues) > 0

\* a count that takes every issue as blocking
blocking_all(issues) == issues

\* [i for i in issues if i["severity"] in ["HIGH", "CRITICAL"]]
blocking(issues) ==
    SelectSeq(issues, LAMBDA i : i.severity \in {"HIGH", "CRITICAL"})

deployment_recommendation(issues, warnings) ==
    IF Len(issues) > 0 THEN "BLOCK DEPLOYMENT"
    ELSE IF Len(warnings) > 0 THEN "PROCEED WITH CAUTION"
    ELSE "APPROVED"

\* CICDValidator.validate_deployment_config
validate_deployment_config(config) ==
    LET replicas == Get(config, "replicas", 0)
        issues1 ==
            IF replicas_issue(replicas)
            THEN <<[severity |-> "HIGH", field |-> "replicas",
                    message |-> "Replica count (" \o ToString(replicas)
                                \o ") is below recommended minimum of 2",
                    recommendation |->
                        "Increase replicas to at least 2 for high availability"]>>
            ELSE << >>
        warnings1 ==
            IF replicas_warning(replicas)
            THEN <<[severity |-> "MEDIUM", field |-> "replicas",
                    message |-> "Replica count (" \o ToString(replicas)
                                \o ") is below optimal count of 3",
                    recommendation |->
                        "Consider increasing to 3 replicas for better fault tolerance"]>>
            ELSE << >>
        resources == Get(config, "resources", EmptyDict)
        limits == Get(resources, "limits", EmptyDict)
        warnings2 ==
            IF IsEmpty(limits)
            THEN Append(warnings1,
                   [severity |-> "MEDIUM", field |-> "resources.limits",
                    message |-> "No resource limits defined",
                    recommendation |->
                        "Define CPU and memory limits to prevent resource exhaustion"])
            ELSE warnings1
        health_check == Get(config, "healthCheck", EmptyDict)
        issues2 ==
            IF IsEmpty(health_check)
            THEN Append(issues1,
                   [severity |-> "MEDIUM", field |-> "healthCheck",
                    message |-> "No health check configured",
                    recommendation |-> "Add liveness and readiness probes"])
            ELSE issues1
        environment == Get(config, "environment", "unknown")
        issues ==
            IF production_blocked(environment, issues2)
            THEN Append(issues2,
                   [severity |-> "CRITICAL", field |-> "environment",
                    message |-> "Production deployment has blocking issues",
                    recommendation |->
                        "Resolve all HIGH severity issues before production deployment"])
            ELSE issues2
        warnings == warnings2
    IN  [valid          |-> Len(issues) = 0,
         environment    |-> environment,
         issues         |-> issues,
         warnings       |-> warnings,
         summary        |-> [total_issues    |-> Len(issues),
                             total_warnings  |-> Len(warnings),
                             blocking_issues |-> Len(blocking(issues))],
         recommendation |-> deployment_recommendation(issues, warnings)]

stage_dev == <<"d", "e", "v">>

stage_staging == <<"s", "t", "a", "g", "i", "n", "g">>

stage_production == <<"p", "r", "o", "d", "u", "c", "t", "i", "o", "n">>

\* the stage_configs table
stage_configs ==
    [key \in {stage_dev, stage_staging, stage_production} |->
        IF key = stage_dev
        THEN [min_replicas |-> 1, require_health_check |-> FALSE]
        ELSE IF key = stage_staging
        THEN [min_replicas |-> 2, require_health_check |-> TRUE]
        ELSE [min_replicas |-> 3, require_health_check |-> TRUE]]

\* a lookup of the stage name as given, without lower()
stage_requirements_exact(stage) ==
    Get(stage_configs, stage, stage_configs[stage_production])

\* stage_configs.get(stage.lower(), stage_configs["production"])
stage_requirements_of(stage) ==
    Get(stage_configs, lower(stage), stage_configs[stage_production])

\* not config.get("healthCheck")
health_check_missing(config) ==
    "healthCheck" \notin DOMAIN config \/ IsEmpty(config["healthCheck"])

\* CICDValidator.validate_pipeline_stage
validate_pipeline_stage(stage, config) ==
    LET stage_requirements == stage_requirements_of(stage)
        replicas == Get(config, "replicas", 0)
        issues1 ==
            IF replicas < stage_requirements.min_replicas
            THEN <<[severity |-> "HIGH",
                    message |-> <<stage, " requires at least ",
                                  stage_requirements.min_replicas, " replicas">>]>>
            ELSE << >>
        issues ==
            IF stage_requirements.require_health_check /\ health_check_missing(config)
            THEN Append(issues1,
                   [severity |-> "HIGH",
                    message |-> <<stage, " requires health check configuration">>])
            ELSE issues1
    IN  [stage  |-> stage,
         valid  |-> Len(issues) = 0,
         issues |-> issues]

----------------------------------------------------------------------------
(* Knowledge search and pattern listing *)

\* if query in title or query in content, for one knowledge item
item_matches(item, query) ==
    \/ Contains(lower(Get(item, "title", << >>)), query)
    \/ Contains(lower(Get(item, "content", << >>)), query)

\* the inner loop of search_knowledge over the first n items of a category
RECURSIVE search_items(_, _, _, _)
search_items(category, items, query, n) ==
    IF n = 0
    THEN << >>
    ELSE LET rest == search_items(category, items, query, n - 1)
         IN  IF item_matches(items[n], query)
             THEN Append(rest, [category |-> category,
                                title    |-> GetOpt(items[n], "title"),
                                content  |-> GetOpt(items[n], "content")])
             ELSE rest

\* the outer loop of search_knowledge over the first n categories
RECURSIVE search_categories(_, _, _)
search_categories(kb, query, n) ==
    IF n = 0
    THEN << >>
    ELSE search_categories(kb, query, n - 1)
         \o search_items(kb[n].key, kb[n].value, query, Len(kb[n].value))

\* ChangeImpactSimulatorServer.search_knowledge
search_knowledge(kb, query) == search_categories(kb, lower(query), Len(kb))

\* ChangeImpactSimulatorServer.list_supported_changes
list_supported_changes(patterns) ==
    [i \in 1..Len(patterns) |->
        [name        |-> patterns[i].key,
         description |-> Get(patterns[i].value, "description", ""),
         risk_level  |-> Get(patterns[i].value, "risk_level", "MEDIUM"),
         example     |-> Get(patterns[i].value, "example", "")]]

----------------------------------------------------------------------------
(* Tool dispatch: call_tool *)

ToolNames == {"search_knowledge", "analyze_change", "create_review_task",
              "list_supported_changes", "get_analysis_statistics",
              "create_approval_workflow", "validate_deployment_config",
              "validate_pipeline_stage"}

\* a search that is counted as an analysis
search_knowledge_counted(arguments) ==
    /\ ret' = [search_knowledge |-> search_knowledge(knowledge_base, arguments.query)]
    /\ record_analysis(unknown_analysis)

\* the search_knowledge branch: the method assigns nothing of the server
search_knowledge_call(arguments) ==
    /\ ret' = [search_knowledge |-> search_knowledge(knowledge_base, arguments.query)]
    /\ UNCHANGED metrics

\* the list_supported_changes branch: the method assigns nothing of the server
list_supported_changes_call(arguments) ==
    /\ ret' = [list_supported_changes |-> list_supported_changes(change_patterns)]
    /\ UNCHANGED metrics

\* the validate_deployment_config branch: issues and warnings are locals
validate_deployment_config_call(arguments) ==
    /\ ret' = [validate_deployment_config |-> validate_deployment_config(arguments.config)]
    /\ UNCHANGED metrics

\* one run of the call_tool handler: it holds no await, so the event loop
\* runs it from its first line to its return without running anything else
call_tool(name, arguments) ==
    /\ call' = [name |-> name, arguments |-> arguments]
    /\ UNCHANGED ruleStore
    /\ \/ /\ name = "search_knowledge"
          /\ search_knowledge_call(arguments)
       \/ /\ name = "analyze_change"
          /\ analyze_change(arguments.change_description)
       \/ /\ name = "create_review_task"
          /\ ret' = [create_review_task |->
                       create_review_task(arguments.analysis, now)]
          /\ UNCHANGED metrics
       \/ /\ name = "list_supported_changes"
          /\ list_supported_changes_call(arguments)
       \/ /\ name = "get_analysis_statistics"
          /\ get_statistics
       \/ /\ name = "create_approval_workflow"
          /\ ret' = [create_approval_workflow |->
                       create_approval_chain(workflows, arguments.analysis, now)]
          /\ UNCHANGED metrics
       \/ /\ name = "validate_deployment_config"
          /\ validate_deployment_config_call(arguments)
       \/ /\ name = "validate_pipeline_stage"
          /\ ret' = [validate_pipeline_stage |->
                       validate_pipeline_stage(arguments.stage, arguments.config)]
          /\ UNCHANGED metrics
       \/ /\ name \notin ToolNames
          /\ ret' = [exception |-> "ValueError"]
          /\ UNCHANGED metrics

----------------------------------------------------------------------------
(* Inputs and configurations the model checks *)

Chars == {"a", "B", "c"}

\* the strings over Chars of at most n characters
Strings(n) == UNION {[1..k -> Chars] : k \in 0..n}

Texts == Strings(MaxLen)

ShortTexts == Strings(1)

RiskLevels == {"LOW", "MEDIUM", "HIGH", "CRITICAL"}

Keywords == {<<"a">>, <<"B">>, <<"a", "b">>}

KeywordLists ==
    {<< >>} \cup {<<k>> : k \in Keywords}
            \cup {<<<<"a">>, <<"B">>>>, <<<<"B">>, <<"a", "b">>>>,
                  <<<<"a", "b">>, <<"a">>>>}

\* a configured change pattern: with every optional key, or with keywords only
PatternValues ==
    {[keywords |-> ks] : ks \in KeywordLists}
    \cup {[keywords |-> ks, risk_level |-> r, impacts |-> <<"impact">>,
           safe_conditions |-> <<"condition">>, safeguards |-> <<"safeguard">>,
           description |-> "description", example |-> "example"] :
          ks \in KeywordLists, r \in RiskLevels}
    \cup {[risk_level |-> "LOW"]}

PatternNames == <<"scale_down_replicas", "scale_up_replicas">>

\* the ordered mappings of the first k pattern names to pattern values
PatternConfigs ==
    UNION {{[i \in 1..k |-> [key |-> PatternNames[i], value |-> f[i]]] :
            f \in [1..k -> PatternValues]} : k \in 0..Len(PatternNames)}

high_pattern ==
    [keywords |-> <<<<"a">>>>, risk_level |-> "HIGH", impacts |-> <<"impact">>,
     safe_conditions |-> <<"condition">>, safeguards |-> <<"safeguard">>,
     description |-> "description", example |-> "example"]

plain_pattern == [keywords |-> <<<<"B">>, <<"a">>>>]

\* the two rule sets of the whole-server specifications
ServerPatternConfigs ==
    {<< >>,
     <<[key |-> PatternNames[1], value |-> high_pattern],
       [key |-> PatternNames[2], value |-> plain_pattern]>>}

ServerRiskDefinitions == "HIGH" :> [description |-> "Significant risk"]

ServerKnowledgeBase ==
    <<[key |-> "scaling",
       value |-> <<[title |-> <<"a", "B">>, content |-> <<"c">>],
                   [content |-> <<"B">>]>>],
      [key |-> "backup",
       value |-> <<[title |-> <<"c">>, content |-> <<"a">>]>>]>>

\* most configured approval stages
MaxStages == 3

StageName(i) == "stage_" \o ToString(i)

RequiredForLists ==
    {<< >>, <<"HIGH">>, <<"CRITICAL">>, <<"HIGH", "CRITICAL">>, <<"UNKNOWN", "LOW">>}

\* the configured approval stages at position i
StageValues(i) ==
    {[name |-> StageName(i)]}
    \cup {[name |-> StageName(i), description |-> "review", auto_approve |-> TRUE,
           approvers |-> <<"sre">>, required_for |-> l] : l \in RequiredForLists}

StageLists ==
    UNION {{f \in [1..k -> UNION {StageValues(i) : i \in 1..k}] :
            \A i \in 1..k : f[i] \in StageValues(i)} : k \in 0..MaxStages}

WorkflowConfigs ==
    {EmptyDict, [approval_workflow |-> EmptyDict]}
    \cup {[approval_workflow |-> [stages |-> l]] : l \in StageLists}

ServerWorkflows ==
    [approval_workflow |->
        [stages |-> <<[name |-> StageName(1), required_for |-> <<"HIGH", "CRITICAL">>],
                      [name |-> StageName(2), required_for |-> <<"CRITICAL">>]>>]]

\* the analysis records handed to the planner
AnalysisInputs ==
    {r @@ d : r \in {EmptyDict}
                    \cup {[risk_level |-> l] :
                          l \in RiskLevels \cup {"UNKNOWN", "high"}},
              d \in {EmptyDict, [change_description |-> <<"a">>]}}

ServerAnalysisInputs ==
    {EmptyDict, [risk_level |-> "HIGH"], [risk_level |-> "CRITICAL"]}

\* the deployment configurations handed to the validator
DeploymentConfigs ==
    {r @@ l @@ h @@ e :
        r \in {EmptyDict} \cup {[replicas |-> n] : n \in 0..MaxReplicas},
        l \in {EmptyDict, [resources |-> EmptyDict],
               [resources |-> [limits |-> EmptyDict]],
               [resources |-> [limits |-> [cpu |-> "500m"]]]},
        h \in {EmptyDict, [healthCheck |-> EmptyDict],
               [healthCheck |-> [path |-> "/healthz"]]},
        e \in {EmptyDict, [environment |-> "production"],
               [environment |-> "staging"]}}

ServerDeploymentConfigs ==
    {[replicas |-> 1, environment |-> "production"],
     [replicas |-> 3, healthCheck |-> [path |-> "/healthz"],
      resources |-> [limits |-> [cpu |-> "500m"]]]}

StageInputs ==
    {stage_dev, stage_staging, stage_production,
     <<"D", "E", "V">>, <<"S", "t", "a", "g", "i", "n", "g">>,
     <<"q", "a">>, << >>}

----------------------------------------------------------------------------
(* The server after construction *)

NoCall == [name |-> "init", arguments |-> EmptyDict]

\* MetricsCollector.__init__ and the rule store as loaded
InitWith(kb, patterns, definitions, wf) ==
    /\ knowledge_base = kb
    /\ change_patterns = patterns
    /\ risk_definitions = definitions
    /\ workflows = wf
    /\ analyses = << >>
    /\ risk_distribution = EmptyDict
    /\ pattern_usage = << >>
    /\ now = 0
    /\ start_time = datetime_now_utc(0)
    /\ inflight = << >>
    /\ completed = << >>
    /\ answers = << >>
    /\ issued = << >>
    /\ call = NoCall
    /\ ret = EmptyDict

Init ==
    \E patterns \in ServerPatternConfigs :
        InitWith(ServerKnowledgeBase, patterns, ServerRiskDefinitions, ServerWorkflows)

----------------------------------------------------------------------------
(* Tool calls *)

\* what the host keeps of a returned analysis
outcome(analysis) ==
    [risk_level      |-> analysis["risk_level"],
     matched_pattern |-> GetOpt(analysis, "matched_pattern")]

Tick ==
    /\ now < MaxClock
    /\ now' = now + 1
    /\ UNCHANGED <<ruleStore, metrics, inflight, completed, answers, issued, call, ret>>

SearchKnowledge(queries) ==
    /\ \E query \in queries : call_tool("search_knowledge", [query |-> query])
    /\ UNCHANGED <<now, inflight, completed, answers, issued>>

AnalyzeChange(texts) ==
    /\ Len(completed) < MaxAnalyses
    /\ \E text \in texts :
          call_tool("analyze_change", [change_description |-> text])
    /\ completed' = Append(completed, outcome(ret'.analyze_change))
    /\ UNCHANGED <<now, inflight, answers, issued>>

CreateReviewTask(inputs) ==
    /\ \E analysis \in inputs :
          call_tool("create_review_task", [analysis |-> analysis])
    /\ UNCHANGED <<now, inflight, completed, answers, issued>>

ListSupportedChanges ==
    /\ call_tool("list_supported_changes", EmptyDict)
    /\ UNCHANGED <<now, inflight, completed, answers, issued>>

GetAnalysisStatistics ==
    /\ call_tool("get_analysis_statistics", EmptyDict)
    /\ UNCHANGED <<now, inflight, completed, answers, issued>>

CreateApprovalWorkflow(inputs) ==
    /\ \E analysis \in inputs :
          call_tool("create_approval_workflow", [analysis |-> analysis])
    /\ UNCHANGED <<now, inflight, completed, answers, issued>>

ValidateDeploymentConfig(configs) ==
    /\ \E config \in configs :
          call_tool("validate_deployment_config", [config |-> config])
    /\ UNCHANGED <<now, inflight, completed, answers, issued>>

ValidatePipelineStage(stages, configs) ==
    /\ \E stage \in stages, config \in configs :
          call_tool("validate_pipeline_stage", [stage |-> stage, config |-> config])
    /\ UNCHANGED <<now, inflight, completed, answers, issued>>

UnknownTool ==
    /\ call_tool("restart_service", EmptyDict)
    /\ UNCHANGED <<now, inflight, completed, answers, issued>>

Next ==
    \/ Tick
    \/ SearchKnowledge(ShortTexts)
    \/ AnalyzeChange(ShortTexts)
    \/ CreateReviewTask(ServerAnalysisInputs)
    \/ ListSupportedChanges
    \/ GetAnalysisStatistics
    \/ CreateApprovalWorkflow(ServerAnalysisInputs)
    \/ ValidateDeploymentConfig(ServerDeploymentConfigs)
    \/ ValidatePipelineStage({stage_dev, <<"q", "a">>}, ServerDeploymentConfigs)
    \/ UnknownTool

Spec == Init /\ [][Next]_vars

----------------------------------------------------------------------------
(* The classifier on every rule set and description: one analysis of a     *)
(* freshly constructed server                                              *)

InitClassify ==
    \E patterns \in PatternConfigs :
        InitWith(ServerKnowledgeBase, patterns, ServerRiskDefinitions, ServerWorkflows)

AnalyzeOnce ==
    /\ call = NoCall
    /\ AnalyzeChange(Texts)

SpecClassify == InitClassify /\ [][AnalyzeOnce]_vars

----------------------------------------------------------------------------
(* The planner on every workflow configuration and analysis record *)

InitPlanner ==
    \E wf \in WorkflowConfigs :
        InitWith(ServerKnowledgeBase, << >>, ServerRiskDefinitions, wf)

TickBeforeCall ==
    /\ call = NoCall
    /\ Tick

ReviewTaskOnce ==
    /\ call = NoCall
    /\ CreateReviewTask(AnalysisInputs)

ApprovalWorkflowOnce ==
    /\ call = NoCall
    /\ CreateApprovalWorkflow(AnalysisInputs)

NextPlanner ==
    \/ TickBeforeCall
    \/ ReviewTaskOnce
    \/ ApprovalWorkflowOnce

SpecPlanner == InitPlanner /\ [][NextPlanner]_vars

----------------------------------------------------------------------------
(* The validator on every deployment configuration and stage name *)

InitValidator ==
    InitWith(ServerKnowledgeBase, << >>, ServerRiskDefinitions, ServerWorkflows)

DeploymentConfigOnce ==
    /\ call = NoCall
    /\ ValidateDeploymentConfig(DeploymentConfigs)

PipelineStageOnce ==
    /\ call = NoCall
    /\ ValidatePipelineStage(StageInputs, DeploymentConfigs)

NextValidator ==
    \/ DeploymentConfigOnce
    \/ PipelineStageOnce

SpecValidator == InitValidator /\ [][NextValidator]_vars

----------------------------------------------------------------------------
(* Concurrent tool calls: the host sends calls without waiting for the     *)
(* answers; the event loop runs one handler at a time, in any order        *)

ConcurrentCalls ==
    {[name |-> "analyze_change", arguments |-> [change_description |-> text]] :
        text \in {<< >>, <<"a">>, <<"B">>}}
    \cup {[name |-> "get_analysis_statistics", arguments |-> EmptyDict]}

Remove(s, i) == [k \in 1..(Len(s) - 1) |-> IF k < i THEN s[k] ELSE s[k + 1]]

Receive ==
    /\ Len(inflight) < MaxInflight
    /\ \E c \in ConcurrentCalls : inflight' = Append(inflight, c)
    /\ UNCHANGED <<ruleStore, metrics, now, completed, answers, issued, call, ret>>

RunAnalyze ==
    /\ Len(completed) < MaxAnalyses
    /\ \E i \in 1..Len(inflight) :
          /\ inflight[i].name = "analyze_change"
          /\ call_tool(inflight[i].name, inflight[i].arguments)
          /\ inflight' = Remove(inflight, i)
    /\ completed' = Append(completed, outcome(ret'.analyze_change))
    /\ UNCHANGED <<now, answers, issued>>

RunStatistics ==
    /\ \E i \in 1..Len(inflight) :
          /\ inflight[i].name = "get_analysis_statistics"
          /\ call_tool(inflight[i].name, inflight[i].arguments)
          /\ inflight' = Remove(inflight, i)
    /\ UNCHANGED <<now, completed, answers, issued>>

NextConcurrent ==
    \/ Tick
    \/ Receive
    \/ RunAnalyze
    \/ RunStatistics

SpecConcurrent == Init /\ [][NextConcurrent]_vars

----------------------------------------------------------------------------
(* Repeated read-only calls, interleaved with one another, with analyses   *)
(* and with the clock: the host keeps the first answer to each call        *)

Answered(c) == \E i \in 1..Len(answers) : answers[i].call = c

FirstAnswer(c) == answers[CHOOSE i \in 1..Len(answers) : answers[i].call = c].ret

Remember ==
    answers' = IF Answered(call')
               THEN answers
               ELSE Append(answers, [call |-> call', ret |-> ret'])

SearchAgain ==
    /\ \E query \in {<<"a">>, <<"B">>} :
          call_tool("search_knowledge", [query |-> query])
    /\ Remember
    /\ UNCHANGED <<now, inflight, completed, issued>>

ListAgain ==
    /\ call_tool("list_supported_changes", EmptyDict)
    /\ Remember
    /\ UNCHANGED <<now, inflight, completed, issued>>

ValidateAgain ==
    /\ call_tool("validate_deployment_config",
                 [config |-> [replicas |-> 1, environment |-> "production"]])
    /\ Remember
    /\ UNCHANGED <<now, inflight, completed, issued>>

NextReadOnly ==
    \/ Tick
    \/ AnalyzeChange({<<"a">>})
    \/ SearchAgain
    \/ ListAgain
    \/ ValidateAgain

SpecReadOnly == Init /\ [][NextReadOnly]_vars

----------------------------------------------------------------------------
(* Approval chains created one after another, with the clock: the host     *)
(* keeps the workflow_id of each chain it is handed                        *)

MaxWorkflows == 3

\* one create_approval_workflow call, and the host filing the id it got
IssueWorkflow ==
    /\ Len(issued) < MaxWorkflows
    /\ \E analysis \in AnalysisInputs :
          call_tool("create_approval_workflow", [analysis |-> analysis])
    /\ issued' = IF ret'.create_approval_workflow.requires_approval
                 THEN Append(issued, ret'.create_approval_workflow.workflow_id)
                 ELSE issued
    /\ UNCHANGED <<now, inflight, completed, answers>>

NextWorkflows ==
    \/ Tick
    \/ IssueWorkflow

SpecWorkflows ==
    InitWith(ServerKnowledgeBase, << >>, ServerRiskDefinitions, ServerWorkflows)
        /\ [][NextWorkflows]_vars

----------------------------------------------------------------------------
(* Approval chains of every length: k configured stages, all required for  *)
(* HIGH and the first j of them for CRITICAL as well                       *)

MaxChain == 24

LongChain(k, j) ==
    [i \in 1..k |->
        [name |-> StageName(i),
         required_for |-> IF i <= j THEN <<"HIGH", "CRITICAL">> ELSE <<"HIGH">>]]

InitEstimate ==
    \E k \in 0..MaxChain : \E j \in 0..k :
        InitWith(ServerKnowledgeBase, << >>, ServerRiskDefinitions,
                 [approval_workflow |-> [stages |-> LongChain(k, j)]])

EstimateOnce ==
    /\ call = NoCall
    /\ CreateApprovalWorkflow(ServerAnalysisInputs)

SpecEstimate == InitEstimate /\ [][EstimateOnce]_vars

----------------------------------------------------------------------------
(* The components handed analysis records of any shape: the planner through *)
(* its tools, the metrics collector through record_analysis itself          *)

\* the records handed to MetricsCollector.record_analysis
RecordInputs ==
    {EmptyDict,
     [risk_level |-> "HIGH"],
     [matched_pattern |-> PatternNames[1]],
     [risk_level |-> "LOW", matched_pattern |-> PatternNames[2]]}

\* two configured approval stages, of every shape
TwoStageWorkflows ==
    {[approval_workflow |-> [stages |-> <<a, b>>]] :
        a \in StageValues(1), b \in StageValues(2)}

\* simulator.metrics.record_analysis(analysis), called on its own
RecordAnalysis(inputs) ==
    /\ Len(analyses) < MaxAnalyses
    /\ \E analysis \in inputs :
          /\ call' = [name |-> "record_analysis", arguments |-> [analysis |-> analysis]]
          /\ record_analysis(analysis)
    /\ ret' = [record_analysis |-> None]
    /\ UNCHANGED <<ruleStore, now, inflight, completed, answers, issued>>

InitMalformed ==
    \E wf \in TwoStageWorkflows :
        InitWith(ServerKnowledgeBase, << >>, ServerRiskDefinitions, wf)

NextMalformed ==
    \/ RecordAnalysis(RecordInputs)
    \/ CreateReviewTask(AnalysisInputs)
    \/ CreateApprovalWorkflow(AnalysisInputs)

SpecMalformed == InitMalformed /\ [][NextMalformed]_vars

----------------------------------------------------------------------------
(* The metrics collector on its own: record_analysis and get_statistics    *)
(* called in any order                                                     *)

\* records with and without a risk level, and with a pattern name, an
\* empty pattern name or none
MetricsInputs ==
    {r @@ p : r \in {EmptyDict} \cup {[risk_level |-> l] : l \in {"LOW", "HIGH", "CRITICAL"}},
              p \in {EmptyDict} \cup {[matched_pattern |-> n] :
                                       n \in {PatternNames[1], PatternNames[2], ""}}}

NextMetrics ==
    \/ RecordAnalysis(MetricsInputs)
    \/ GetAnalysisStatistics

SpecMetrics == Init /\ [][NextMetrics]_vars

----------------------------------------------------------------------------
(* Properties *)

\* two characters that are the same letter, whatever their case
SameLetter(c, d) ==
    \/ c = d
    \/ \E i \in 1..Len(UpperCase) : {c, d} = {UpperCase[i], LowerCase[i]}

\* k occurs in text as a substring, case ignored
OccursIn(k, text) ==
    \E i \in 0..(Len(text) - Len(k)) :
        \A j \in 1..Len(k) : SameLetter(text[i + j], k[j])

\* the configured pattern at position i has a keyword that occurs in text
HasKeywordIn(i, text) ==
    /\ "keywords" \in DOMAIN change_patterns[i].value
    /\ \E n \in 1..Len(change_patterns[i].value.keywords) :
          OccursIn(change_patterns[i].value.keywords[n], text)

Unmatched(text) == \A i \in 1..Len(change_patterns) : ~HasKeywordIn(i, text)

\* a step in which an analyze_change call returned
AnalysisReturned == Len(completed') = Len(completed) + 1

\* C1: every analysis of a description that contains no keyword of any
\* configured pattern returns risk_level UNKNOWN and is recorded: the UNKNOWN
\* count of the risk distribution and the total count each grow by one, and
\* the pattern usage stays as it was.
C1_UnmatchedIsRecorded ==
    [][(AnalysisReturned /\ Unmatched(call'.arguments.change_description))
         => /\ ret'.analyze_change.risk_level = "UNKNOWN"
            /\ DefaultGet(risk_distribution', "UNKNOWN")
                  = DefaultGet(risk_distribution, "UNKNOWN") + 1
            /\ Len(analyses') = Len(analyses) + 1
            /\ pattern_usage' = pattern_usage]_vars

\* C2: first match wins.  When the description has a keyword of the pattern
\* at position p and no keyword of a pattern before p, the analysis names
\* that pattern and carries its risk level, MEDIUM when it configures none,
\* whichever later patterns match too.
C2_FirstMatchWins ==
    call.name = "analyze_change" =>
        \A p \in 1..Len(change_patterns) :
            (/\ HasKeywordIn(p, call.arguments.change_description)
             /\ \A q \in 1..(p - 1) :
                   ~HasKeywordIn(q, call.arguments.change_description))
            => /\ "matched_pattern" \in DOMAIN ret.analyze_change
               /\ ret.analyze_change.matched_pattern = change_patterns[p].key
               /\ ret.analyze_change.risk_level =
                     IF "risk_level" \in DOMAIN change_patterns[p].value
                     THEN change_patterns[p].value.risk_level
                     ELSE "MEDIUM"

\* C2 happens: both patterns match a description written in another case
\* than their keywords, the first configures no risk level, and the first
\* is the one returned.
C2_Witness ==
    /\ call.name = "analyze_change"
    /\ Len(change_patterns) = 2
    /\ HasKeywordIn(1, call.arguments.change_description)
    /\ HasKeywordIn(2, call.arguments.change_description)
    /\ ~pattern_matches(change_patterns[1].value, call.arguments.change_description)
    /\ "risk_level" \notin DOMAIN change_patterns[1].value
    /\ "risk_level" \in DOMAIN change_patterns[2].value
    /\ change_patterns[2].value.risk_level = "CRITICAL"
    /\ ret.analyze_change.matched_pattern = change_patterns[1].key
    /\ ret.analyze_change.risk_level = "MEDIUM"

\* C3: create_review_task creates a task exactly for the records whose
\* risk_level is HIGH or CRITICAL; the priority of a created task is HIGH
\* exactly when the risk level is CRITICAL and is MEDIUM otherwise.
C3_ReviewTask ==
    call.name = "create_review_task" =>
        LET analysis == call.arguments.analysis
            high     == "risk_level" \in DOMAIN analysis /\ analysis.risk_level = "HIGH"
            critical == "risk_level" \in DOMAIN analysis
                        /\ analysis.risk_level = "CRITICAL"
        IN  /\ ret.create_review_task.task_created = (high \/ critical)
            /\ critical => ret.create_review_task.priority = "HIGH"
            /\ high => ret.create_review_task.priority = "MEDIUM"

\* C3 happens: a HIGH-risk record got a task of priority MEDIUM.
C3_Witness ==
    /\ call.name = "create_review_task"
    /\ "risk_level" \in DOMAIN call.arguments.analysis
    /\ call.arguments.analysis.risk_level = "HIGH"
    /\ ret.create_review_task.task_created
    /\ ret.create_review_task.priority = "MEDIUM"

\* the approval stages configured in workflows
ConfiguredStages ==
    IF /\ "approval_workflow" \in DOMAIN workflows
       /\ "stages" \in DOMAIN workflows.approval_workflow
    THEN workflows.approval_workflow.stages
    ELSE << >>

\* the positions of the configured stages whose required_for holds risk
RequiredStages(risk) ==
    {i \in 1..Len(ConfiguredStages) :
        /\ "required_for" \in DOMAIN ConfiguredStages[i]
        /\ \E n \in 1..Len(ConfiguredStages[i].required_for) :
              ConfiguredStages[i].required_for[n] = risk}

\* the k-th smallest member of a set of positions
Kth(S, k) == CHOOSE i \in S : Cardinality({j \in S : j < i}) = k - 1

\* C4: create_approval_chain requires no approval exactly when no configured
\* stage's required_for holds the record's risk level; otherwise it returns
\* every such stage, and only those, in the configured order.
C4_ApprovalChain ==
    (call.name = "create_approval_workflow"
        /\ "risk_level" \in DOMAIN call.arguments.analysis) =>
        LET required == RequiredStages(call.arguments.analysis.risk_level)
        IN  /\ ret.create_approval_workflow.requires_approval = (required # {})
            /\ required # {} =>
                  /\ Len(ret.create_approval_workflow.approval_stages) = Cardinality(required)
                  /\ \A k \in 1..Cardinality(required) :
                        LET stage == ConfiguredStages[Kth(required, k)]
                        IN  /\ ret.create_approval_workflow.approval_stages[k].stage = <<stage.name>>
                            /\ ret.create_approval_workflow.approval_stages[k].approvers = stage.approvers

\* C4 happens: of three configured stages the first and the third are
\* required, the second is not, and both required stages are returned.
C4_Witness ==
    /\ call.name = "create_approval_workflow"
    /\ "risk_level" \in DOMAIN call.arguments.analysis
    /\ Len(ConfiguredStages) = 3
    /\ RequiredStages(call.arguments.analysis.risk_level) = {1, 3}
    /\ ret.create_approval_workflow.requires_approval
    /\ Len(ret.create_approval_workflow.approval_stages) = 2

\* the <<severity, field>> of each finding of a list
Findings(list) == [i \in 1..Len(list) |-> <<list[i].severity, list[i].field>>]

LimitsMissing(config) ==
    ~(/\ "resources" \in DOMAIN config
      /\ "limits" \in DOMAIN config.resources
      /\ DOMAIN config.resources.limits # {})

HealthCheckMissing(config) ==
    ~("healthCheck" \in DOMAIN config /\ DOMAIN config.healthCheck # {})

InProduction(config) ==
    "environment" \in DOMAIN config /\ config.environment = "production"

\* the issues of the replica and health check rules, in rule order
EarlierIssues(config) ==
    (IF config.replicas < 2 THEN << <<"HIGH", "replicas">> >> ELSE << >>)
    \o (IF HealthCheckMissing(config) THEN << <<"MEDIUM", "healthCheck">> >> ELSE << >>)

\* C5: validate_deployment_config accumulates its findings in rule order:
\* a HIGH replicas issue for replicas < 2, a MEDIUM replicas warning for
\* replicas = 2, neither from 3 on; a MEDIUM warning for missing or empty
\* resources.limits; a MEDIUM issue for a missing or empty healthCheck; and a
\* CRITICAL environment issue, last, exactly when the environment is
\* production and an earlier rule produced an issue.
C5_ValidationRules ==
    (call.name = "validate_deployment_config"
        /\ "replicas" \in DOMAIN call.arguments.config) =>
        LET config == call.arguments.config
        IN  /\ Findings(ret.validate_deployment_config.issues) =
                  EarlierIssues(config)
                  \o (IF InProduction(config) /\ EarlierIssues(config) # << >>
                      THEN << <<"CRITICAL", "environment">> >>
                      ELSE << >>)
            /\ Findings(ret.validate_deployment_config.warnings) =
                  (IF config.replicas = 2
                   THEN << <<"MEDIUM", "replicas">> >> ELSE << >>)
                  \o (IF LimitsMissing(config)
                      THEN << <<"MEDIUM", "resources.limits">> >> ELSE << >>)

\* C5 happens: a production configuration with one replica and no health
\* check gets the replicas issue, the health check issue and then the
\* CRITICAL one.
C5_Witness ==
    /\ call.name = "validate_deployment_config"
    /\ "replicas" \in DOMAIN call.arguments.config
    /\ call.arguments.config.replicas = 1
    /\ InProduction(call.arguments.config)
    /\ HealthCheckMissing(call.arguments.config)
    /\ Len(ret.validate_deployment_config.issues) = 3
    /\ ret.validate_deployment_config.issues[3].severity = "CRITICAL"
    /\ ret.validate_deployment_config.issues[3].field = "environment"

\* C6: the verdict of validate_deployment_config: valid exactly when there is
\* no issue; BLOCK DEPLOYMENT with an issue, else PROCEED WITH CAUTION with a
\* warning, else APPROVED; blocking_issues counts the HIGH and CRITICAL
\* issues.
C6_Verdict ==
    call.name = "validate_deployment_config" =>
        /\ ret.validate_deployment_config.valid = (Len(ret.validate_deployment_config.issues) = 0)
        /\ ret.validate_deployment_config.recommendation =
              IF Len(ret.validate_deployment_config.issues) > 0 THEN "BLOCK DEPLOYMENT"
              ELSE IF Len(ret.validate_deployment_config.warnings) > 0 THEN "PROCEED WITH CAUTION"
              ELSE "APPROVED"
        /\ ret.validate_deployment_config.summary.blocking_issues =
              Cardinality({i \in 1..Len(ret.validate_deployment_config.issues) :
                              ret.validate_deployment_config.issues[i].severity \in {"HIGH", "CRITICAL"}})

\* C6 happens: the only issue is the MEDIUM health check issue, so the
\* deployment is blocked with no blocking issue counted.
C6_Witness ==
    /\ call.name = "validate_deployment_config"
    /\ Len(ret.validate_deployment_config.issues) = 1
    /\ ret.validate_deployment_config.issues[1].severity = "MEDIUM"
    /\ ~ret.validate_deployment_config.valid
    /\ ret.validate_deployment_config.recommendation = "BLOCK DEPLOYMENT"
    /\ ret.validate_deployment_config.summary.blocking_issues = 0

\* the analyses returned so far all matched pattern p
AllMatched(p) == \A i \in 1..Len(completed) : completed[i].matched_pattern = <<p>>

\* C7: after n analyses that all matched the same pattern, get_statistics
\* returns a snapshot with total_analyses = n, that pattern's usage count = n
\* and, as recent_analyses, the last min(n, 10) records in arrival order.
C7_StatisticsAfterAnalyses ==
    \A p \in {PatternNames[i] : i \in 1..Len(PatternNames)} :
        (/\ call.name = "get_analysis_statistics"
         /\ Len(completed) >= 1
         /\ AllMatched(p))
        => /\ "get_analysis_statistics" \in DOMAIN ret
           /\ LET statistics == ret.get_analysis_statistics
              IN  /\ statistics.summary.total_analyses = Len(completed)
                  /\ \E k \in 1..Len(statistics.top_patterns) :
                        /\ statistics.top_patterns[k].key = p
                        /\ statistics.top_patterns[k].value = Len(completed)
                  /\ Len(statistics.recent_analyses) =
                        (IF Len(completed) < RecentLimit
                         THEN Len(completed) ELSE RecentLimit)
                  /\ \A k \in 1..Len(statistics.recent_analyses) :
                        statistics.recent_analyses[k] =
                           analyses[Len(analyses)
                                    - Len(statistics.recent_analyses) + k]

ReadOnlyTools ==
    {"search_knowledge", "list_supported_changes", "validate_deployment_config"}

\* C8: search, list_supported_changes and validate_deployment_config are
\* read-only and idempotent: a call of one of them leaves the rule store and
\* the metrics as they were, and answers what the first call with the same
\* input answered, whatever ran in between.
C8_ReadOnlyIdempotent ==
    [][call'.name \in ReadOnlyTools
         => /\ UNCHANGED <<ruleStore, metrics>>
            /\ Answered(call') => ret' = FirstAnswer(call')]_vars

\* C8 happens: a search that finds entries was answered first, other
\* read-only calls and an analysis ran after it, and the search ran again.
C8_Witness ==
    /\ call.name = "search_knowledge"
    /\ Len(answers) >= 3
    /\ answers[1].call = call
    /\ Len(analyses) >= 1
    /\ Len(ret.search_knowledge) >= 1
    /\ ret = answers[1].ret

\* stage and name are the same word, case ignored
SameWord(stage, name) ==
    /\ Len(stage) = Len(name)
    /\ \A i \in 1..Len(stage) : SameLetter(stage[i], name[i])

\* the result holds one HIGH issue for each unmet requirement among: at
\* least min replicas, and a health check where one is required
MeetsVerdict(config, min, health_check_required) ==
    /\ Len(ret.validate_pipeline_stage.issues) =
          (IF config.replicas < min THEN 1 ELSE 0)
          + (IF health_check_required /\ HealthCheckMissing(config) THEN 1 ELSE 0)
    /\ \A i \in 1..Len(ret.validate_pipeline_stage.issues) : ret.validate_pipeline_stage.issues[i].severity = "HIGH"
    /\ ret.validate_pipeline_stage.valid = (Len(ret.validate_pipeline_stage.issues) = 0)

PipelineStageCalled ==
    /\ call.name = "validate_pipeline_stage"
    /\ "replicas" \in DOMAIN call.arguments.config

\* C9 as stated: the requirements are those of dev, staging or production for
\* exactly these three names, and every other stage name is validated
\* against the production requirements.
C9_UnlistedStageIsProduction ==
    PipelineStageCalled =>
        IF call.arguments.stage = stage_dev
        THEN MeetsVerdict(call.arguments.config, 1, FALSE)
        ELSE IF call.arguments.stage = stage_staging
        THEN MeetsVerdict(call.arguments.config, 2, TRUE)
        ELSE MeetsVerdict(call.arguments.config, 3, TRUE)

\* C9 as amended: the stage name is looked up with its case ignored, and
\* only a name that is none of the three in any case is validated against
\* the production requirements.
C9_StageRequirements ==
    PipelineStageCalled =>
        IF SameWord(call.arguments.stage, stage_dev)
        THEN MeetsVerdict(call.arguments.config, 1, FALSE)
        ELSE IF SameWord(call.arguments.stage, stage_staging)
        THEN MeetsVerdict(call.arguments.config, 2, TRUE)
        ELSE MeetsVerdict(call.arguments.config, 3, TRUE)

\* C9 happens: stage "DEV" with one replica and no health check is valid,
\* which the production requirements would not allow.
C9_Witness ==
    /\ PipelineStageCalled
    /\ call.arguments.stage = <<"D", "E", "V">>
    /\ call.arguments.config.replicas = 1
    /\ HealthCheckMissing(call.arguments.config)
    /\ ret.validate_pipeline_stage.valid

\* the number of returned analyses that satisfy Test
Count(Test(_)) == Cardinality({i \in 1..Len(completed) : Test(completed[i])})

\* C10: with analyze calls issued concurrently, after k analyses have
\* returned the total is k, every risk-level count and every pattern-usage
\* count is the number of returned analyses with that level or pattern, and
\* the recorded history never runs ahead of the counters.
C10_RecordsSerialized ==
    /\ Len(analyses) = Len(completed)
    /\ \A r \in RiskLevels \cup {"UNKNOWN"} :
          DefaultGet(risk_distribution, r) = Count(LAMBDA c : c.risk_level = r)
    /\ \A i \in 1..Len(PatternNames) :
          OrdGet(pattern_usage, PatternNames[i], 0)
             = Count(LAMBDA c : c.matched_pattern = <<PatternNames[i]>>)
    /\ Len(analyses) =
          DefaultGet(risk_distribution, "LOW") + DefaultGet(risk_distribution, "MEDIUM")
          + DefaultGet(risk_distribution, "HIGH") + DefaultGet(risk_distribution, "CRITICAL")
          + DefaultGet(risk_distribution, "UNKNOWN")

\* C11: workflow_id is unique per call: any two create_approval_chain calls
\* of the same process that both return requires_approval = TRUE return
\* different workflow_id values.
C11_WorkflowIdUnique ==
    \A i, j \in 1..Len(issued) : i # j => issued[i] # issued[j]

\* the risk levels the recorded analyses were counted under
RecordedLevels ==
    {IF analyses[i].risk_level = None THEN "UNKNOWN" ELSE analyses[i].risk_level[1] :
        i \in 1..Len(analyses)}

\* C12: get_statistics is a pure read: a call of it, whether it returns or
\* fails, leaves the recorded history, the risk-level-to-count mapping (and
\* which levels have an entry in it), the pattern usage and the start time as
\* they were, so a reported risk_distribution holds recorded levels only.
C12_StatisticsPureRead ==
    [][call'.name = "get_analysis_statistics"
         => /\ UNCHANGED <<analyses, risk_distribution, pattern_usage, start_time>>
            /\ "get_analysis_statistics" \in DOMAIN ret'
                  => DOMAIN ret'.get_analysis_statistics.risk_distribution
                        \subseteq RecordedLevels]_vars

\* a create_approval_workflow call returned a chain of s required stages
ChainOf(s) ==
    /\ call.name = "create_approval_workflow"
    /\ "risk_level" \in DOMAIN call.arguments.analysis
    /\ Cardinality(RequiredStages(call.arguments.analysis.risk_level)) = s
    /\ s >= 1

\* the estimate of a chain of s stages, with the three wordings given
EstimateIs(s, same_day, within_a_day, business_days) ==
    ret.create_approval_workflow.estimated_approval_time =
        IF s <= 2 THEN same_day
        ELSE IF s <= 12 THEN within_a_day
        ELSE ToString((2 * s) \div 24) \o business_days

\* C13 as stated: for a chain of s >= 1 required stages the estimate is
\* "same day" for s <= 2, "within 24 hours" for 3 <= s <= 12 and
\* "N business days" with N = floor(2 * s / 24) for s >= 13.
C13_EstimateLowerCase ==
    \A s \in 1..MaxChain :
        ChainOf(s) => EstimateIs(s, "same day", "within 24 hours", " business days")

\* C13 as amended: the same bands of s and the same N, with the wordings
\* "Same day", "Within 24 hours" and "N business days".
C13_EstimatedApprovalTime ==
    \A s \in 1..MaxChain :
        ChainOf(s) => EstimateIs(s, "Same day", "Within 24 hours", " business days")

\* C13 happens: a chain of 13 stages is estimated at 1 business days.
C13_Witness ==
    /\ ChainOf(13)
    /\ ret.create_approval_workflow.estimated_approval_time = "1 business days"

\* the record the last call was handed has no risk_level
LacksRiskLevel(c) ==
    /\ "analysis" \in DOMAIN c.arguments
    /\ "risk_level" \notin DOMAIN c.arguments.analysis

\* C14: a record without risk_level is never rejected and is treated as
\* UNKNOWN: create_review_task returns task_created = FALSE,
\* create_approval_chain selects exactly the stages whose required_for holds
\* UNKNOWN, in the configured order, and record_analysis counts the record
\* under UNKNOWN and under no other level.
C14_MissingRiskLevelIsUnknown ==
    [][LacksRiskLevel(call')
         => /\ ~IsException(ret')
            /\ call'.name = "create_review_task"
                  => ret'.create_review_task.task_created = FALSE
            /\ call'.name = "create_approval_workflow"
                  => LET required == RequiredStages("UNKNOWN")
                         chain == ret'.create_approval_workflow
                     IN  /\ chain.requires_approval = (required # {})
                         /\ required # {}
                               => /\ Len(chain.approval_stages) = Cardinality(required)
                                  /\ \A k \in 1..Cardinality(required) :
                                        chain.approval_stages[k].stage =
                                           <<ConfiguredStages[Kth(required, k)].name>>
            /\ call'.name = "record_analysis"
                  => /\ Len(analyses') = Len(analyses) + 1
                     /\ \A r \in RiskLevels \cup {"UNKNOWN"} :
                           DefaultGet(risk_distribution', r) =
                              DefaultGet(risk_distribution, r)
                              + (IF r = "UNKNOWN" THEN 1 ELSE 0)]_vars

\* C14 happens: a record without risk_level was recorded and counted under
\* UNKNOWN, and a record without risk_level was then handed to
\* create_approval_chain, which selected the one stage required for UNKNOWN.
C14_Witness ==
    /\ Len(analyses) >= 1
    /\ analyses[1].risk_level = None
    /\ DefaultGet(risk_distribution, "UNKNOWN") >= 1
    /\ call.name = "create_approval_workflow"
    /\ LacksRiskLevel(call)
    /\ ret.create_approval_workflow.requires_approval
    /\ Len(ret.create_approval_workflow.approval_stages) = 1

\* the sum of the counts of a mapping from keys to counts
RECURSIVE SumOfCounts(_)
SumOfCounts(d) ==
    IF DOMAIN d = {}
    THEN 0
    ELSE LET k == CHOOSE x \in DOMAIN d : TRUE
         IN  d[k] + SumOfCounts([x \in DOMAIN d \ {k} |-> d[x]])

\* the sum of the pattern-usage counts
UsageTotal(pu) == SumOfCounts([i \in 1..Len(pu) |-> pu[i].value])

\* the recorded analyses that matched a pattern
WithPattern(an) ==
    {i \in 1..Len(an) : an[i].pattern # None /\ an[i].pattern # <<"">>}

\* the counts agree with the recorded history
CountsAgree(an, rd, pu) ==
    /\ Len(an) = SumOfCounts(rd)
    /\ UsageTotal(pu) <= Len(an)
    /\ Cardinality(WithPattern(an)) = Len(an) => UsageTotal(pu) = Len(an)

\* C15: in every state reached by record and snapshot calls, the number of
\* recorded analyses equals the sum of the risk-level counts, the sum of the
\* pattern-usage counts is at most that number, and equal to it when every
\* recorded analysis has a matched pattern; no count ever decreases.
C15_CountsAgreeAndGrow ==
    /\ CountsAgree(analyses, risk_distribution, pattern_usage)
    /\ [][/\ CountsAgree(analyses', risk_distribution', pattern_usage')
           /\ Len(analyses') >= Len(analyses)
           /\ \A r \in DOMAIN risk_distribution :
                 DefaultGet(risk_distribution', r) >= risk_distribution[r]
           /\ \A i \in 1..Len(pattern_usage) :
                 OrdGet(pattern_usage', pattern_usage[i].key, 0)
                    >= pattern_usage[i].value]_vars

\* C15 happens: two analyses of the same risk level were recorded, one of
\* them without a pattern, and a snapshot call has read the counts.
C15_Witness ==
    /\ Len(analyses) = 2
    /\ DefaultGet(risk_distribution, "LOW") = 2
    /\ "CRITICAL" \in DOMAIN risk_distribution
    /\ UsageTotal(pattern_usage) = 1
    /\ call.name = "get_analysis_statistics"

====
